---- MODULE Spec2Model ----
(***************************************************************************)
(* State-machine model of conda_lock/conda_solver.py: solve_conda and the  *)
(* two solver drivers solve_specs_for_arch and update_specs_for_arch, the  *)
(* synthetic prior environment (fake_conda_environment) and the FETCH      *)
(* reconciliation (_reconstruct_fetch_actions).  One caller runs one call  *)
(* at a time; a call is split at its blocking subprocess invocations,      *)
(* whose outputs are the nondeterministic inputs of the next step.         *)
(*                                                                         *)
(* Three specifications share the operators translated from the code:      *)
(*   Spec        one solve_conda call at a time, with every answer the     *)
(*               solver and the package cache may give;                    *)
(*   ConcSpec    one solve per target platform, interleaved, with the      *)
(*               command line and env= map of every subprocess and the     *)
(*               time a call stays blocked on it;                          *)
(*   RecordSpec  one locked package carried from a prior lock through the  *)
(*               synthetic environment back into a LockedDependency, over  *)
(*               many file names and dependency maps.                      *)
(*                                                                         *)
(* Strings are modelled as sequences of tokens, so that concatenation,     *)
(* splitting and prefixing are computed, not assumed: a hash "md5:ab" is   *)
(* <<"md5:", "ab">>, a URL is the sequence of its "/"-separated segments   *)
(* with the file name last, a file name is a stem and its suffix layers.   *)
(***************************************************************************)
EXTENDS Integers, Sequences, FiniteSets, TLC

VARIABLES
    pc,         \* position of the caller: "idle", "list", "dryrun", "create", "done"
    conda,      \* the executable (path name), a token sequence
    platform,   \* target platform of the call
    specs,      \* solve_conda's specs: dict name -> Dependency
    locked,     \* solve_conda's locked: dict name -> LockedDependency
    update,     \* solve_conda's update: set of requested names
    fs,         \* the synthetic environment directory: [exists, files]
    installed,  \* update_specs_for_arch's installed: dict name -> LinkAction
    calls,      \* subprocess invocations made by the call, in order
    response,   \* what the solver dry-run answered (NoValue before it returns)
    plan,       \* DryRunInstall returned by solve/update_specs_for_arch, or NoValue
    result,     \* dict returned by solve_conda, or NoValue
    err,        \* exception that ended the call, or NoValue
    stderr,     \* what the call printed to sys.stderr, in order
    pkgs_dirs,  \* distribution names the package cache held a record for when
                \* the reconciliation looked them up
    environ,    \* os.environ of the process, as far as the module reads it
    solves,     \* per target platform: a solve running concurrently with the others
    pkg         \* one locked package followed from the lock through the synthetic
                \* environment and the carry-forward back into a LockedDependency

\* the variables of one solve_conda call followed step by step
callvars == <<pc, conda, platform, specs, locked, update, fs, installed, calls,
              response, plan, result, err, stderr, pkgs_dirs>>

vars == <<callvars, environ, solves, pkg>>

NoValue == [none |-> TRUE]

\* ------------------------------------------------------------------ bounds

\* number of distinct version strings a package may have
NumVersions == 2

\* longest time, in time units, a subprocess is followed while it runs
MaxWait == 2

Names == {"a", "b"}
VersionStr == <<"1.0", "1.1", "1.2", "1.3">>
Versions == {VersionStr[i] : i \in 1..NumVersions}
Platforms == {"linux-64", "osx-64"}
Managers == {"conda", "pip"}
\* executable names: "conda", "mamba", "micromamba"
Tools == {<<"conda">>, <<"mamba">>, <<"micro", "mamba">>}

\* -------------------------------------------------------- generic helpers

Range(s) == {s[i] : i \in DOMAIN s}

RECURSIVE SetToSeq(_)
\* a sequence holding each element of S once (Python iterates a set in some order)
SetToSeq(S) ==
    IF S = {} THEN <<>>
    ELSE LET x == CHOOSE y \in S : TRUE IN <<x>> \o SetToSeq(S \ {x})

\* {p["name"]: p for p in entries}: the names a list of actions gives keys for
NamesOf(entries) == {entries[i].name : i \in DOMAIN entries}

\* {p["name"]: p for p in entries}[n]: the last entry of that name wins
LastNamed(entries, n) ==
    entries[CHOOSE i \in DOMAIN entries :
                /\ entries[i].name = n
                /\ \A j \in DOMAIN entries : entries[j].name = n => j <= i]

\* ---------------------------------------------------------- string helpers
\* A string is a sequence of tokens; " " is the single-space token.

RECURSIVE LStrip(_)
LStrip(s) == IF s # <<>> /\ Head(s) = " " THEN LStrip(Tail(s)) ELSE s

RECURSIVE RStrip(_)
RStrip(s) ==
    IF s # <<>> /\ s[Len(s)] = " " THEN RStrip(SubSeq(s, 1, Len(s) - 1)) ELSE s

\* str.strip()
Strip(s) == RStrip(LStrip(s))

\* index of the first " " token of s, or 0
FirstSpace(s) ==
    IF \E i \in DOMAIN s : s[i] = " "
    THEN CHOOSE i \in DOMAIN s : s[i] = " " /\ \A j \in 1..(i - 1) : s[j] # " "
    ELSE 0

\* item.split()[0]: the first whitespace-free word
SplitFirst(item) == Head(SelectSeq(item, LAMBDA t : t # " "))

RECURSIVE JoinWords(_)
\* " ".join(words)
JoinWords(words) ==
    IF words = <<>> THEN <<>>
    ELSE IF Len(words) = 1 THEN words
    ELSE <<Head(words), " ">> \o JoinWords(Tail(words))

\* mutant: " ".join(item.split()[1:]) - the words after the first, re-joined
JoinRest_words(item) == JoinWords(Tail(SelectSeq(item, LAMBDA t : t # " ")))

\* " ".join(item.split(" ")[1:]): what follows the first single space
JoinRest(item) ==
    IF FirstSpace(item) = 0 THEN <<>>
    ELSE SubSeq(item, FirstSpace(item) + 1, Len(item))

\* f"{k} {v}".strip()
DependsItem(k, v) == Strip(<<k, " ">> \o v)

\* [f"{k} {v}".strip() for k, v in dependencies.items()]
DependsList(dependencies) ==
    LET ks == SetToSeq(DOMAIN dependencies)
    IN  [i \in DOMAIN ks |-> DependsItem(ks[i], dependencies[ks[i]])]

\* {item.split()[0]: " ".join(item.split(" ")[1:]) for item in depends}
ParseDepends(depends) ==
    [k \in {SplitFirst(depends[i]) : i \in DOMAIN depends} |->
        JoinRest(depends[CHOOSE i \in DOMAIN depends :
            /\ SplitFirst(depends[i]) = k
            /\ \A j \in DOMAIN depends : SplitFirst(depends[j]) = k => j <= i])]

\* ------------------------------------------------- executables and tools

\* pathlib.Path(conda).name.startswith("mamba")
NameStartsWithMamba(exe) == Head(exe) = "mamba"

\* is_micromamba(conda): the executable's name ends with "micromamba"
is_micromamba(exe) ==
    Len(exe) >= 2 /\ SubSeq(exe, Len(exe) - 1, Len(exe)) = <<"micro", "mamba">>

\* conda_env_override(platform): the per-call environment map of a subprocess
conda_env_override(p) == [CONDA_SUBDIR |-> p]

\* ------------------------------------------------------ locked packages

CompressionSuffixes == {".tar", ".bz2", ".gz", ".conda"}

\* build string of a package file, "_"-separated
BuildOf(n) == <<"h1", "_", "0">>

\* file name "<name>-<version>-<build>.tar.bz2"
FileName(n, v) == <<n, "-", v, "-">> \o BuildOf(n) \o <<".tar", ".bz2">>

\* artifact URL: "/"-separated segments, the file name last
CondaUrl(n, v, subdir) ==
    <<<<"https://conda.anaconda.org">>, <<"conda-forge">>, <<subdir>>, FileName(n, v)>>

PipUrl(n, v) ==
    <<<<"https://files.pythonhosted.org">>, <<"packages">>, <<n, "-", v, ".tar", ".gz">>>>

\* raw checksum of an artifact, as the repodata gives it
Digest(n, v) == <<"dg", n, v>>

\* dependency map a package declares: name -> version-range string
DependenciesOf(n) ==
    [k \in (IF n = "a" THEN {"b"} ELSE {}) |-> <<">=1.0">>]

\* a LockedDependency as solve_conda builds it (and a lock file holds it)
LockedDep(n, v, m, p) ==
    [name |-> n, version |-> v, manager |-> m, platform |-> p,
     dependencies |-> DependenciesOf(n),
     url |-> IF m = "conda" THEN CondaUrl(n, v, p) ELSE PipUrl(n, v),
     hash |-> <<"md5:">> \o Digest(n, v)]

\* manager and platform of a prior lock's entries: conda packages of either
\* platform, and pip packages
LockedKinds == {<<"conda", "linux-64">>, <<"conda", "osx-64">>, <<"pip", "linux-64">>}

\* the prior locks a call may be given: a dict keyed by package name
LockedDicts ==
    UNION {{[n \in S |-> LockedDep(n, VersionStr[1], mp[n][1], mp[n][2])] :
                mp \in [S -> LockedKinds]} : S \in SUBSET Names}

\* -------------------------------------------- fake_conda_environment

\* mutant: one suffix layer is removed, not every layer
StripSuffixes_once(fname) ==
    IF fname # <<>> /\ fname[Len(fname)] \in CompressionSuffixes
    THEN SubSeq(fname, 1, Len(fname) - 1)
    ELSE fname

\* pathlib suffix stripping: while path.suffix in {...}: path = path.with_suffix("")
RECURSIVE StripSuffixes(_)
StripSuffixes(fname) ==
    IF fname # <<>> /\ fname[Len(fname)] \in CompressionSuffixes
    THEN StripSuffixes(SubSeq(fname, 1, Len(fname) - 1))
    ELSE fname

\* index of the last token equal to sep in s, or 0
LastIndexOf(s, sep) ==
    IF \E i \in DOMAIN s : s[i] = sep
    THEN CHOOSE i \in DOMAIN s : s[i] = sep /\ \A j \in DOMAIN s : s[j] = sep => j <= i
    ELSE 0

\* s.split(sep)[-1]
SplitLast(s, sep) == SubSeq(s, LastIndexOf(s, sep) + 1, Len(s))

DigitTokens == <<"0", "1", "2", "3">>

\* value of one decimal digit token
DigitValue(t) == (CHOOSE i \in DOMAIN DigitTokens : DigitTokens[i] = t) - 1

RECURSIVE IntOf(_)
\* int(s) of a non-empty string of decimal digits
IntOf(s) ==
    IF s = <<>> THEN 0
    ELSE IntOf(SubSeq(s, 1, Len(s) - 1)) * 10 + DigitValue(s[Len(s)])

\* try: int(build.split("_")[-1]) except ValueError: 0
BuildNumber(build) ==
    LET last == SplitLast(build, "_")
    IN  IF last # <<>> /\ \A i \in DOMAIN last : last[i] \in Range(DigitTokens)
        THEN IntOf(last)
        ELSE 0

\* the file name of a URL, compression suffixes removed (path.name after the loop)
RecordStem(dep) == StripSuffixes(dep.url[Len(dep.url)])

\* the conda-meta record written for one locked dependency
MetaEntry(dep) ==
    LET build == SplitLast(RecordStem(dep), "-")
    IN  [name |-> dep.name,
         channel |-> SubSeq(dep.url, 1, Len(dep.url) - 1),
         url |-> dep.url,
         md5 |-> dep.hash,
         build |-> build,
         build_number |-> BuildNumber(build),
         version |-> dep.version,
         subdir |-> dep.url[Len(dep.url) - 1],
         depends |-> DependsList(dep.dependencies)]

HistoryFile == <<"history">>
PinnedFile == <<"pinned">>

\* mutant: the record is written under the bare file name, without ".json"
RecordFile_bare(dep) == RecordStem(dep)

\* conda_meta / (path.name + ".json")
RecordFile(dep) == RecordStem(dep) \o <<".json">>

\* mutant: the platform filter is lost
EnvDeps_noplatform(lockedValues, p) == {dep \in lockedValues : dep.manager = "conda"}

\* the dependencies fake_conda_environment writes a record for
EnvDeps(lockedValues, p) ==
    {dep \in lockedValues : dep.manager = "conda" /\ dep.platform = p}

\* conda-meta of the fresh prefix: file name -> content
fake_conda_environment(lockedValues, p) ==
    LET deps == EnvDeps(lockedValues, p)
        recs == {RecordFile(d) : d \in deps}
    IN  [f \in {HistoryFile} \cup recs |->
            IF f \in recs
            THEN [kind |-> "json", data |-> MetaEntry(CHOOSE d \in deps : RecordFile(d) = f)]
            ELSE [kind |-> "text", data |-> <<>>]]

NoDir == [exists |-> FALSE, files |-> <<>>]

\* `conda list -p prefix --json`: one LinkAction per conda-meta record
\* (micromamba reports the channel URL with the platform, conda and mamba without)
CondaListEntry(exe, rec) ==
    [name |-> rec.name,
     version |-> rec.version,
     dist_name |-> <<rec.name, "-", rec.version, "-">> \o rec.build,
     platform |-> rec.subdir[1],
     base_url |-> IF is_micromamba(exe) THEN rec.channel
                  ELSE SubSeq(rec.channel, 1, Len(rec.channel) - 1)]

\* installed = {entry["name"]: entry for entry in json.loads(`conda list`)}
Installed(exe, files) ==
    LET recs == {files[f].data : f \in {g \in DOMAIN files : files[g].kind = "json"}}
    IN  [n \in {r.name : r \in recs} |->
            CondaListEntry(exe, CHOOSE r \in recs : r.name = n)]

\* ------------------------------------------------------ specs and errors

\* _to_match_spec(conda_dep_name, conda_version)
to_match_spec(n, version) ==
    IF version # <<>> THEN <<n, "[", "version='">> \o version \o <<"']">>
    ELSE <<n>>

\* version constraint an explicit requirement carries (may be empty)
SpecVersionOf(n) == IF n = "a" THEN <<">=1.0">> ELSE <<>>

\* a Dependency of the specification
SpecDep(n, m) ==
    [name |-> n, version |-> SpecVersionOf(n), manager |-> m, kind |-> "versioned"]

\* a Dependency that is not a VersionedDependency: pinned to a URL
UrlDep(n, m) ==
    [name |-> n, url |-> <<<<"https://example.org">>, <<n, ".tar", ".gz">>>>,
     manager |-> m, kind |-> "url"]

\* manager and variant a requirement of the given name may have
SpecKinds(n) ==
    {<<"conda", "versioned">>} \cup
    (IF n = "a" THEN {<<"pip", "versioned">>} ELSE {<<"conda", "url">>})

\* the specs a call may be given: a dict keyed by package name
SpecDicts ==
    UNION {{[n \in S |-> IF k[n][2] = "versioned" THEN SpecDep(n, k[n][1])
                         ELSE UrlDep(n, k[n][1])] :
                k \in {f \in [S -> UNION {SpecKinds(n) : n \in Names}] :
                          \A n \in S : f[n] \in SpecKinds(n)}} :
              S \in SUBSET Names}

\* conda_specs of solve_conda: match specs of the versioned conda dependencies
conda_specs(sp) ==
    LET ks == SetToSeq({n \in DOMAIN sp :
                           sp[n].kind = "versioned" /\ sp[n].manager = "conda"})
    IN  [i \in DOMAIN ks |-> to_match_spec(sp[ks[i]].name, sp[ks[i]].version)]

\* conda_locked of solve_conda, as the set of its values (keyed by dep.name)
conda_locked(lk) == [n \in {k \in DOMAIN lk : lk[k].manager = "conda"} |-> lk[n]]

\* v.split("[")[0]
BeforeBracket(v) ==
    IF \E i \in DOMAIN v : v[i] = "["
    THEN SubSeq(v, 1, (CHOOSE i \in DOMAIN v :
                          v[i] = "[" /\ \A j \in 1..(i - 1) : v[j] # "[") - 1)
    ELSE v

\* spec_for_name = {v.split("[")[0]: v for v in specs}
spec_for_name(cspecs) ==
    [k \in {BeforeBracket(cspecs[i]) : i \in DOMAIN cspecs} |->
        cspecs[CHOOSE i \in DOMAIN cspecs :
            /\ BeforeBracket(cspecs[i]) = k
            /\ \A j \in DOMAIN cspecs : BeforeBracket(cspecs[j]) = k => j <= i]]

\* an exception: its type, the text it carries, and the solver output attached
Error(type, text, output) == [type |-> type, text |-> text, output |-> output]

\* --------------------------------------------------- the solver's answers

\* a FETCH action: the package's repodata record
FetchEntry(n, v, subdir) ==
    [channel |-> <<<<"https://conda.anaconda.org">>, <<"conda-forge">>, <<subdir>>>>,
     constrains |-> <<>>,
     depends |-> DependsList(DependenciesOf(n)),
     fn |-> FileName(n, v),
     md5 |-> Digest(n, v),
     name |-> n,
     subdir |-> subdir,
     timestamp |-> 1,
     url |-> CondaUrl(n, v, subdir),
     version |-> v]

\* a LINK action as conda and mamba report it
LinkEntry(n, v, subdir) ==
    [base_url |-> <<<<"https://conda.anaconda.org">>, <<"conda-forge">>>>,
     channel |-> <<"conda-forge">>,
     dist_name |-> <<n, "-", v, "-">> \o BuildOf(n),
     name |-> n,
     platform |-> subdir,
     version |-> v]

\* a LINK action of the solver: micromamba's carries the FETCH metadata as well
SolverLink(exe, n, v, subdir) ==
    IF is_micromamba(exe)
    THEN [base_url |-> <<<<"https://conda.anaconda.org">>, <<"conda-forge">>, <<subdir>>>>,
          dist_name |-> <<n, "-", v, "-">> \o BuildOf(n),
          platform |-> subdir,
          channel |-> FetchEntry(n, v, subdir).channel,
          constrains |-> <<>>,
          depends |-> FetchEntry(n, v, subdir).depends,
          fn |-> FileName(n, v),
          md5 |-> Digest(n, v),
          name |-> n,
          subdir |-> subdir,
          timestamp |-> 1,
          url |-> CondaUrl(n, v, subdir),
          version |-> v]
    ELSE LinkEntry(n, v, subdir)

\* what the solver decides for one package: leave it out of the plan, link and
\* fetch it at some version, or link it from its package cache (no FETCH action)
AnyMove == {<<"none", VersionStr[1]>>} \cup ({"LF", "L"} \X Versions)

\* the pins a prefix holds: conda-meta/pinned read back, line by line
PinsOf(files) ==
    IF <<"pinned">> \notin DOMAIN files THEN <<>>
    ELSE LET lines == files[<<"pinned">>].data
         IN  [n \in {lines[i][1] : i \in DOMAIN lines} |->
                 (CHOOSE l \in Range(lines) : l[1] = n)[3]]

\* the solver honours the pins of the prefix: a pinned package stays out of the
\* plan or is linked at its pinned version; any other package may move freely
PackageMoves(n, pins) ==
    IF n \in DOMAIN pins
    THEN {m \in AnyMove : m[1] = "none" \/ m[2] = pins[n]}
    ELSE AnyMove

\* the "actions" object of a successful dry run; omitEmpty: empty lists are left out
ActionsOf(exe, p, moves, omitEmpty) ==
    LET ln == SetToSeq({n \in Names : moves[n][1] \in {"LF", "L"}})
        fn == SetToSeq({n \in Names : moves[n][1] = "LF"})
    IN  [keys |-> {k \in {"LINK", "FETCH"} :
                     ~(omitEmpty /\ (IF k = "LINK" THEN ln ELSE fn) = <<>>)},
         LINK |-> [i \in DOMAIN ln |-> SolverLink(exe, ln[i], moves[ln[i]][2], p)],
         FETCH |-> [i \in DOMAIN fn |-> FetchEntry(fn[i], moves[fn[i]][2], p)]]

NoActions == [keys |-> {}, LINK |-> <<>>, FETCH |-> <<>>]

\* a finished solver process: exit status and stdout (JSON object or not)
Response(rc, isJson, keys, message, actions) ==
    [returncode |-> rc, json |-> isJson, keys |-> keys, message |-> message,
     actions |-> actions]

SolverMessage == <<"PackagesNotFoundError">>

\* every answer the external solver may give to a dry run
Responses(exe, p, pins) ==
    {Response(1, TRUE, {"message"}, SolverMessage, NoActions),
     Response(1, TRUE, {}, <<>>, NoActions),
     Response(1, FALSE, {}, <<>>, NoActions),
     Response(0, FALSE, {}, <<>>, NoActions),
     Response(0, TRUE, {}, <<>>, NoActions)}
    \cup {Response(0, TRUE, {"actions"}, <<>>, ActionsOf(exe, p, moves, o)) :
            moves \in {m \in [Names -> AnyMove] :
                          \A n \in Names : m[n] \in PackageMoves(n, pins)},
            o \in BOOLEAN}

\* raw text of the solver's stdout
StdoutText(r) ==
    IF ~r.json THEN <<"Traceback">>
    ELSE IF "message" \in r.keys THEN <<"{", "message:">> \o r.message \o <<"}">>
    ELSE IF "actions" \in r.keys THEN <<"{", "actions", "}">>
    ELSE <<"{", "}">>

\* one subprocess invocation: executable, verb, trailing specs, env= argument
Invocation(exe, verb, args, p) ==
    [exe |-> exe, verb |-> verb, specs |-> args, env |-> conda_env_override(p)]

\* subprocess.CalledProcessError of a failed invocation
CalledProcessError(verb, output) ==
    Error("CalledProcessError",
          <<"Command ", verb, " returned non-zero exit status ", "1">>, output)

\* --------------------------------------------- _reconstruct_fetch_actions

\* the repodata_record.json the package cache holds for a distribution
CacheRecord(link_action) ==
    FetchEntry(link_action.dist_name[1], link_action.dist_name[3], link_action.platform)

FetchKeys == {"channel", "fn", "md5", "name", "subdir", "timestamp", "url", "version"}

\* micromamba: the FETCH action copied key by key out of a LINK action
CopyFromLink(item) ==
    [channel |-> item.channel,
     constrains |-> IF "constrains" \in DOMAIN item THEN item.constrains ELSE <<>>,
     depends |-> IF "depends" \in DOMAIN item THEN item.depends ELSE <<>>,
     fn |-> item.fn,
     md5 |-> item.md5,
     name |-> item.name,
     subdir |-> item.subdir,
     timestamp |-> item.timestamp,
     url |-> item.url,
     version |-> item.version]

\* mutant: every LINK name is taken as LINK-only
LinkOnlyNames_all(acts) == NamesOf(acts.LINK)

\* link_only_names
LinkOnlyNames(acts) == NamesOf(acts.LINK) \ NamesOf(acts.FETCH)

\* mutant: the loop over the LINK-only names stops after the first one
AppendedFetch_first(exe, acts) ==
    LET order == SetToSeq(LinkOnlyNames(acts))
    IN  [i \in DOMAIN order \cap {1} |->
            IF is_micromamba(exe) THEN CopyFromLink(LastNamed(acts.LINK, order[i]))
            ELSE CacheRecord(LastNamed(acts.LINK, order[i]))]

\* the FETCH actions appended for the LINK-only names, in iteration order
\* (cache: the distribution names some pkgs_dir holds a record for)
AppendedFetch(exe, acts) ==
    LET order == SetToSeq(LinkOnlyNames(acts))
    IN  [i \in DOMAIN order |->
            IF is_micromamba(exe) THEN CopyFromLink(LastNamed(acts.LINK, order[i]))
            ELSE CacheRecord(LastNamed(acts.LINK, order[i]))]

\* `conda info --json` is run only by conda and mamba, for a LINK-only name
InfoCalls(exe, acts, p) ==
    IF ~is_micromamba(exe) /\ LinkOnlyNames(acts) # {}
    THEN <<Invocation(exe, "info", <<>>, p)>> ELSE <<>>

\* mutant: a LINK-only distribution is taken as found whatever the cache holds
reconstruct_fetch_actions_nocheck(exe, p, acts, cache) ==
    LET linkOnly == LinkOnlyNames(acts)
        failure ==
            IF is_micromamba(exe)
            THEN IF \E n \in linkOnly : ~(FetchKeys \subseteq DOMAIN LastNamed(acts.LINK, n))
                 THEN Error("KeyError", <<"fn">>, <<>>) ELSE NoValue
            ELSE NoValue
    IN  IF failure # NoValue
        THEN [err |-> failure, actions |-> NoValue, calls |-> InfoCalls(exe, acts, p)]
        ELSE [err |-> NoValue,
              calls |-> InfoCalls(exe, acts, p),
              actions |-> [keys |-> {"LINK", "FETCH"},
                           LINK |-> acts.LINK,
                           FETCH |-> acts.FETCH \o AppendedFetch(exe, acts)]]

\* _reconstruct_fetch_actions(conda, platform, dry_run_install): [err, actions, calls]
reconstruct_fetch_actions(exe, p, acts, cache) ==
    LET linkOnly == LinkOnlyNames(acts)
        failure ==
            IF is_micromamba(exe)
            THEN IF \E n \in linkOnly : ~(FetchKeys \subseteq DOMAIN LastNamed(acts.LINK, n))
                 THEN Error("KeyError", <<"fn">>, <<>>) ELSE NoValue
            ELSE IF \E n \in linkOnly : LastNamed(acts.LINK, n).dist_name \notin cache
                 THEN Error("FileExistsError", <<"Distribution not found in pkgs_dirs">>, <<>>)
                 ELSE NoValue
    IN  IF failure # NoValue
        THEN [err |-> failure, actions |-> NoValue, calls |-> InfoCalls(exe, acts, p)]
        ELSE [err |-> NoValue,
              calls |-> InfoCalls(exe, acts, p),
              actions |-> [keys |-> {"LINK", "FETCH"},
                           LINK |-> acts.LINK,
                           FETCH |-> acts.FETCH \o AppendedFetch(exe, acts)]]

\* ------------------------------------------------- update_specs_for_arch

\* the synthesized FETCH action of a package carried forward
CarriedFetch(exe, entry, lockedDep) ==
    LET fn == entry.dist_name \o <<".tar", ".bz2">>
        channel == IF is_micromamba(exe) THEN entry.base_url
                   ELSE entry.base_url \o <<<<entry.platform>>>>
    IN  [name |-> entry.name,
         channel |-> channel,
         url |-> channel \o <<fn>>,
         fn |-> fn,
         md5 |-> lockedDep.hash,
         version |-> entry.version,
         depends |-> DependsList(lockedDep.dependencies),
         constrains |-> <<>>,
         subdir |-> entry.platform,
         timestamp |-> 0]

\* mutant: `update` (the requested names) read where `updated` (the plan's) is meant
CarriedNames_typo(inst, acts) == DOMAIN inst \ update

\* packages installed in the prior environment that the solver's plan does not LINK
CarriedNames(inst, acts) == DOMAIN inst \ NamesOf(acts.LINK)

\* mutant: the carried package's LINK action is not appended (line 454 lost)
carry_forward_nolink(exe, inst, lk, acts) ==
    LET order == SetToSeq(CarriedNames(inst, acts))
    IN  [keys |-> acts.keys,
         LINK |-> acts.LINK,
         FETCH |-> acts.FETCH \o
                   [i \in DOMAIN order |-> CarriedFetch(exe, inst[order[i]], lk[order[i]])]]

\* lines 427-454: append a FETCH and a LINK action per carried package
carry_forward(exe, inst, lk, acts) ==
    LET order == SetToSeq(CarriedNames(inst, acts))
    IN  [keys |-> acts.keys,
         LINK |-> acts.LINK \o [i \in DOMAIN order |-> inst[order[i]]],
         FETCH |-> acts.FETCH \o
                   [i \in DOMAIN order |-> CarriedFetch(exe, inst[order[i]], lk[order[i]])]]

EmptyActions == [keys |-> {"LINK", "FETCH"}, LINK |-> <<>>, FETCH |-> <<>>]

\* lines 424-455: from the parsed dry run to the returned plan: [err, actions]
finish_update(exe, p, inst, lk, dryrun, cache) ==
    LET acts == IF "actions" \in dryrun.keys THEN dryrun.actions ELSE EmptyActions
    IN  IF "LINK" \notin acts.keys
        THEN [err |-> Error("KeyError", <<"LINK">>, <<>>), actions |-> NoValue, calls |-> <<>>]
        ELSE IF CarriedNames(inst, acts) # {} /\ "FETCH" \notin acts.keys
        THEN [err |-> Error("KeyError", <<"FETCH">>, <<>>), actions |-> NoValue, calls |-> <<>>]
        ELSE reconstruct_fetch_actions(exe, p, carry_forward(exe, inst, lk, acts), cache)

\* mutant: the exit status of the update dry run is not checked
update_after_dryrun_unchecked(exe, p, inst, lk, r, cache) ==
    IF ~r.json THEN [err |-> Error("JSONDecodeError", <<>>, <<>>), actions |-> NoValue,
                     calls |-> <<>>]
    ELSE finish_update(exe, p, inst, lk, r, cache)

\* lines 412-420: the update dry run has returned: [err, actions]
update_after_dryrun(exe, p, inst, lk, r, cache) ==
    IF ~r.json THEN [err |-> Error("JSONDecodeError", <<>>, <<>>), actions |-> NoValue, calls |-> <<>>]
    ELSE IF r.returncode # 0
    THEN [err |-> Error("RuntimeError",
                        <<"Could not lock the environment for platform ", p, ": ">>
                            \o (IF "message" \in r.keys THEN r.message ELSE <<"None">>),
                        <<>>),
          actions |-> NoValue, calls |-> <<>>]
    ELSE finish_update(exe, p, inst, lk, r, cache)

\* mutant: the dry run is invoked whether or not anything is to update
NeedsDryRun_always(names) == TRUE

\* line 368: `if to_update:` - the dry run is invoked only for a non-empty list
NeedsDryRun(names) == names # {}

\* mutant: every installed package is pinned, the updated ones included
PinLines_all(inst, upd) ==
    LET order == SetToSeq(DOMAIN inst)
    IN  [i \in DOMAIN order |-> <<order[i], " ==", inst[order[i]].version, "\n">>]

\* the pin file mamba is given: one line per installed package not updated
PinLines(inst, upd) ==
    LET order == SetToSeq(DOMAIN inst \ upd)
    IN  [i \in DOMAIN order |-> <<order[i], " ==", inst[order[i]].version, "\n">>]

\* mutant: every tool is driven with `update`
UpdateVerb_always(exe) == "update"

\* the verb of the update dry run (lines 381-403)
UpdateVerb(exe) ==
    IF NameStartsWithMamba(exe) THEN "update"
    ELSE IF is_micromamba(exe) THEN "update" ELSE "install"

\* --------------------------------------------------- solve_specs_for_arch

\* lines 296-317: what a failed `create` prints to sys.stderr
SolveFailureStderr(p, r) ==
    LET message == IF ~r.json THEN StdoutText(r)
                   ELSE IF "message" \in r.keys THEN r.message ELSE StdoutText(r)
    IN  (IF ~r.json THEN <<<<"Failed to parse json">>>> ELSE <<>>)
        \o <<<<"Could not lock the environment for platform ", p>>>>
        \o (IF message # <<>> THEN <<message>> ELSE <<>>)
        \o <<<<"    Command: ", "create">>, <<"    STDOUT:">> \o StdoutText(r)>>

\* lines 296-323: the create dry run has returned: [err, actions]
solve_after_dryrun(exe, p, r, cache) ==
    IF r.returncode # 0
    THEN [err |-> CalledProcessError("create", StdoutText(r)), actions |-> NoValue,
          calls |-> <<>>]
    ELSE IF ~r.json
    THEN [err |-> Error("JSONDecodeError", <<>>, <<>>), actions |-> NoValue, calls |-> <<>>]
    ELSE IF "actions" \notin r.keys
    THEN [err |-> Error("KeyError", <<"actions">>, <<>>), actions |-> NoValue, calls |-> <<>>]
    ELSE reconstruct_fetch_actions(exe, p, r.actions, cache)

\* ------------------------------------------------------------ solve_conda

\* lines 143-158: the LockedDependency built from one FETCH action
PlannedDep(action, p) ==
    [name |-> action.name,
     version |-> action.version,
     manager |-> "conda",
     platform |-> p,
     dependencies |-> ParseDepends(action.depends),
     url |-> action.url,
     hash |-> IF "md5" \in DOMAIN action THEN <<"md5:">> \o action.md5 ELSE <<>>]

\* mutant: only the first FETCH action is converted
Planned_first(fetch, p) ==
    [n \in NamesOf(SubSeq(fetch, 1, 1)) |-> PlannedDep(LastNamed(fetch, n), p)]

\* planned = {action["name"]: LockedDependency(...) for action in FETCH}
Planned(fetch, p) ==
    [n \in NamesOf(fetch) |-> PlannedDep(LastNamed(fetch, n), p)]

\* mutant: the requested names are met with the whole prior lock
ToUpdate_anylocked(lk, upd) == upd \cap DOMAIN lk

\* to_update = set(update).intersection(conda_locked)
ToUpdate(lk, upd) == upd \cap DOMAIN conda_locked(lk)

\* ---------------------------------------------------- command lines
\* What each subprocess is started with: its argument list and its env= map.

\* platforms solved side by side
SolvePlatforms == {"linux-64", "win-64"}

\* channel lists a solve may be given
ChannelLists == {<<>>, <<"defaults">>}

\* values of os.environ.get("CONDA_FLAGS"), already split by shlex (<<>>: unset)
FlagSettings == {<<>>, <<"--strict-channel-priority">>}

RECURSIVE ChannelArgs(_, _)
\* lines 273-279: --channel <c> per channel, msys2 after defaults on Windows
ChannelArgs(channels, p) ==
    IF channels = <<>> THEN <<>>
    ELSE <<"--channel", Head(channels)>>
         \o (IF Head(channels) = "defaults" /\ p \in {"win-64", "win-32"}
             THEN <<"--channel", "msys2">> ELSE <<>>)
         \o ChannelArgs(Tail(channels), p)

\* lines 267-279: the flags of a dry run; flags: the split CONDA_FLAGS value
CondaFlags(flags, channels, p) ==
    flags
    \o (IF channels # <<>> THEN <<"--override-channels">> ELSE <<>>)
    \o ChannelArgs(channels, p)

\* _get_conda_flags(channels, platform), given the process environment
get_conda_flags(env, channels, p) == CondaFlags(env.CONDA_FLAGS, channels, p)

\* os.path.join(conda_pkgs_dir(), "prefix")
PkgsPrefix == <<"pkgs", "/", "prefix">>

\* the prefix of the synthetic environment of the update for platform p
\* (tempfile.TemporaryDirectory gives every call its own)
TmpPrefix(p) == <<"tmp", p>>

\* mutant: the platform override is the host's, not the call's own
Subprocess_hostenv(args, p) == [args |-> args, env |-> conda_env_override("linux-64")]

\* a started subprocess: argument list and env= map
Subprocess(args, p) == [args |-> args, env |-> conda_env_override(p)]

\* lines 259-287: the `create` dry run of solve_specs_for_arch
CreateCall(exe, env, channels, cspecs, p) ==
    Subprocess(<<exe, "create", "--prefix", PkgsPrefix, "--dry-run", "--json">>
                   \o CondaFlags(env.CONDA_FLAGS, channels, p)
                   \o cspecs, p)

\* lines 358-361: `conda list` on the synthetic prefix
ListCall(exe, p) == Subprocess(<<exe, "list", "-p", TmpPrefix(p), "--json">>, p)

\* lines 388-410: the dry run of update_specs_for_arch
UpdateCall(exe, env, channels, to_update, p) ==
    Subprocess(<<exe, UpdateVerb(exe)>>
                   \o get_conda_flags(env, channels, p)
                   \o <<"-p", TmpPrefix(p), "--json", "--dry-run">>
                   \o to_update, p)

\* lines 189-191: `conda info --json` of the reconciliation
InfoCall(exe, p) == Subprocess(<<exe, "info", "--json">>, p)

\* no package is being followed
NoRecord == [stage |-> "none"]

\* a platform with no solve in progress
IdleSolve == [pc |-> "idle", conda |-> <<>>, channels |-> <<>>, specs |-> <<>>,
              calls |-> <<>>, waited |-> 0]

\* ------------------------------------------------------------ the machine

\* platforms a call is made for
TargetPlatforms == {"linux-64"}

\* the update list update_specs_for_arch receives: list(to_update)
UpdateArg == ToUpdate(locked, update)

\* the package-cache contents that matter to a dry run's answer: which of the
\* distributions it links without fetching have a record in some pkgs_dir
CacheChoices(exe, r) ==
    IF is_micromamba(exe) \/ r.returncode # 0 \/ "actions" \notin r.keys THEN {{}}
    ELSE SUBSET {r.actions.LINK[i].dist_name :
                    i \in {j \in DOMAIN r.actions.LINK :
                              r.actions.LINK[j].name \in LinkOnlyNames(r.actions)}}

\* no call in progress
IdleCall ==
    /\ pc = "idle"
    /\ conda = <<>>
    /\ platform = ""
    /\ specs = <<>>
    /\ locked = <<>>
    /\ update = {}
    /\ fs = NoDir
    /\ installed = <<>>
    /\ calls = <<>>
    /\ response = NoValue
    /\ plan = NoValue
    /\ result = NoValue
    /\ err = NoValue
    /\ stderr = <<>>
    /\ pkgs_dirs = {}

Init ==
    /\ IdleCall
    /\ environ = [CONDA_FLAGS |-> <<>>]
    /\ solves = [p \in SolvePlatforms |-> IdleSolve]
    /\ pkg = NoRecord

\* mutant: the directory is removed on the normal exit only
Finish_leak(out) ==
    /\ pc' = "done"
    /\ fs' = IF out.err = NoValue THEN NoDir ELSE fs
    /\ calls' = calls \o out.calls
    /\ err' = out.err
    /\ plan' = out.actions
    /\ result' = IF out.err = NoValue THEN Planned(out.actions.FETCH, platform)
                 ELSE NoValue

\* the state a call ends in: the directory is removed as the `with` block exits,
\* and solve_conda converts a returned plan (out: [err, actions, calls])
Finish(out) ==
    /\ pc' = "done"
    /\ fs' = NoDir
    /\ calls' = calls \o out.calls
    /\ err' = out.err
    /\ plan' = out.actions
    /\ result' = IF out.err = NoValue THEN Planned(out.actions.FETCH, platform)
                 ELSE NoValue

\* solve_conda with a non-empty to_update: update_specs_for_arch enters
\* fake_conda_environment and runs `conda list` on the fresh prefix
CallUpdate ==
    /\ pc = "idle"
    /\ \E exe \in Tools, p \in TargetPlatforms, sp \in SpecDicts, lk \in LockedDicts,
          u \in SUBSET Names :
        /\ ToUpdate(lk, u) # {}
        /\ conda' = exe /\ platform' = p /\ specs' = sp /\ locked' = lk /\ update' = u
        /\ fs' = [exists |-> TRUE,
                  files |-> fake_conda_environment(Range(conda_locked(lk)), p)]
        /\ calls' = <<Invocation(exe, "list", <<>>, p)>>
        /\ pc' = "list"
        /\ UNCHANGED <<installed, response, plan, result, err, stderr, pkgs_dirs,
                       environ, solves, pkg>>

\* solve_conda with an empty to_update: solve_specs_for_arch runs `create`
CallSolve ==
    /\ pc = "idle"
    /\ \E exe \in Tools, p \in TargetPlatforms, sp \in SpecDicts, lk \in LockedDicts,
          u \in SUBSET Names :
        /\ ToUpdate(lk, u) = {}
        /\ conda' = exe /\ platform' = p /\ specs' = sp /\ locked' = lk /\ update' = u
        /\ calls' = <<Invocation(exe, "create", conda_specs(sp), p)>>
        /\ pc' = "create"
        /\ UNCHANGED <<fs, installed, response, plan, result, err, stderr, pkgs_dirs,
                       environ, solves, pkg>>

\* `conda list` exits non-zero: check_output raises inside the `with` block
ListFails ==
    /\ pc = "list"
    /\ Finish([err |-> CalledProcessError("list", <<>>), actions |-> NoValue,
               calls |-> <<>>])
    /\ UNCHANGED <<conda, platform, specs, locked, update, installed, response, stderr,
                   pkgs_dirs, environ, solves, pkg>>

\* lines 355-410 (and 421-455 when nothing is to update): `conda list` has answered
ListReturns ==
    /\ pc = "list"
    /\ LET inst == Installed(conda, fs.files)
           names == DOMAIN inst \cap UpdateArg
           sfn == spec_for_name(conda_specs(specs))
           order == SetToSeq(names)
           to_update == [i \in DOMAIN order |-> sfn[<<order[i]>>]]
       IN  /\ installed' = inst
           /\ IF \E n \in names : <<n>> \notin DOMAIN sfn
              THEN /\ Finish([err |-> Error("KeyError", <<"spec_for_name">>, <<>>),
                              actions |-> NoValue, calls |-> <<>>])
                   /\ UNCHANGED stderr
              ELSE IF ~NeedsDryRun(names)
              THEN /\ Finish(finish_update(conda, platform, inst, conda_locked(locked),
                                           [keys |-> {"actions"}, actions |-> EmptyActions],
                                           {}))
                   /\ UNCHANGED stderr
              ELSE IF NameStartsWithMamba(conda) /\ PinnedFile \in DOMAIN fs.files
              THEN /\ Finish([err |-> Error("AssertionError", <<>>, <<>>),
                              actions |-> NoValue, calls |-> <<>>])
                   /\ UNCHANGED stderr
              ELSE /\ pc' = "dryrun"
                   /\ fs' = IF NameStartsWithMamba(conda)
                            THEN [fs EXCEPT !.files =
                                    [f \in DOMAIN fs.files \cup {PinnedFile} |->
                                        IF f = PinnedFile
                                        THEN [kind |-> "text",
                                              data |-> PinLines(inst, UpdateArg)]
                                        ELSE fs.files[f]]]
                            ELSE fs
                   /\ stderr' = IF NameStartsWithMamba(conda)
                                THEN stderr \o <<<<"Warning: mamba cannot update single packages without resorting to pinning.">>>>
                                ELSE stderr
                   /\ calls' = Append(calls, Invocation(conda, UpdateVerb(conda),
                                                        to_update, platform))
                   /\ UNCHANGED <<plan, result, err>>
    /\ UNCHANGED <<conda, platform, specs, locked, update, response, pkgs_dirs,
                   environ, solves, pkg>>

\* lines 412-455: the update dry run has exited
DryRunReturns ==
    /\ pc = "dryrun"
    /\ \E r \in Responses(conda, platform, PinsOf(fs.files)) : \E cache \in CacheChoices(conda, r) :
        /\ response' = r
        /\ pkgs_dirs' = cache
        /\ Finish(update_after_dryrun(conda, platform, installed, conda_locked(locked),
                                      r, cache))
        /\ UNCHANGED <<conda, platform, specs, locked, update, installed, stderr,
                       environ, solves, pkg>>

\* lines 296-323: the create dry run has exited
CreateReturns ==
    /\ pc = "create"
    /\ \E r \in Responses(conda, platform, <<>>) : \E cache \in CacheChoices(conda, r) :
        /\ response' = r
        /\ pkgs_dirs' = cache
        /\ stderr' = IF r.returncode # 0 THEN stderr \o SolveFailureStderr(platform, r)
                     ELSE stderr
        /\ Finish(solve_after_dryrun(conda, platform, r, cache))
        /\ UNCHANGED <<conda, platform, specs, locked, update, installed, environ, solves, pkg>>

\* the caller takes the outcome; the next call starts from scratch
Return ==
    /\ pc = "done"
    /\ pc' = "idle"
    /\ conda' = <<>> /\ platform' = "" /\ specs' = <<>> /\ locked' = <<>>
    /\ update' = {} /\ installed' = <<>> /\ calls' = <<>> /\ response' = NoValue
    /\ plan' = NoValue /\ result' = NoValue /\ err' = NoValue /\ stderr' = <<>>
    /\ pkgs_dirs' = {}
    /\ UNCHANGED <<fs, environ, solves, pkg>>

Next ==
    \/ CallUpdate
    \/ CallSolve
    \/ ListFails
    \/ ListReturns
    \/ DryRunReturns
    \/ CreateReturns
    \/ Return

Spec == Init /\ [][Next]_vars

\* =========================================== solves running side by side
\* One solve per target platform, interleaved step by step; each step is the
\* start of one subprocess, with the argument list and env= map the code builds.

\* conda_specs lists a solve may be given
SpecLists ==
    {conda_specs([n \in S |-> SpecDep(n, "conda")]) : S \in {{"a"}, {"a", "b"}}}

\* to_update of update_specs_for_arch: the specs of the requested names installed
ToUpdateLists(cspecs) == {<<>>, <<cspecs[1]>>, cspecs}

\* solve_conda -> solve_specs_for_arch: the `create` dry run is started
StartSolve(p) ==
    /\ solves[p].pc = "idle"
    /\ \E exe \in Tools, ch \in ChannelLists, sp \in SpecLists :
          solves' = [solves EXCEPT ![p] =
                        [pc |-> "create", conda |-> exe, channels |-> ch, specs |-> sp,
                         calls |-> <<CreateCall(exe, environ, ch, sp, p)>>, waited |-> 0]]
    /\ UNCHANGED <<callvars, environ, pkg>>

\* solve_conda -> update_specs_for_arch: `conda list` is started on the prefix
StartUpdate(p) ==
    /\ solves[p].pc = "idle"
    /\ \E exe \in Tools, ch \in ChannelLists, sp \in SpecLists :
          solves' = [solves EXCEPT ![p] =
                        [pc |-> "list", conda |-> exe, channels |-> ch, specs |-> sp,
                         calls |-> <<ListCall(exe, p)>>, waited |-> 0]]
    /\ UNCHANGED <<callvars, environ, pkg>>

\* lines 364-410: `conda list` answered; the dry run is started unless nothing
\* is to update
ListAnswers(p) ==
    /\ solves[p].pc = "list"
    /\ \E tu \in ToUpdateLists(solves[p].specs) :
          solves' = [solves EXCEPT ![p] =
                        IF tu = <<>> THEN [@ EXCEPT !.pc = "reconcile", !.waited = 0]
                        ELSE [@ EXCEPT !.pc = "dryrun", !.waited = 0,
                                       !.calls = Append(@, UpdateCall(solves[p].conda, environ,
                                                                      solves[p].channels, tu, p))]]
    /\ UNCHANGED <<callvars, environ, pkg>>

\* subprocess.run / check_output without timeout=: the call stays blocked for as
\* long as the child process runs
Blocked(p) ==
    /\ solves[p].pc \in {"list", "create", "dryrun"}
    /\ solves[p].waited < MaxWait
    /\ solves' = [solves EXCEPT ![p].waited = @ + 1]
    /\ UNCHANGED <<callvars, environ, pkg>>

\* the dry run exited: with a plan to reconcile, or with a failure
SolverAnswers(p) ==
    /\ solves[p].pc \in {"create", "dryrun"}
    /\ \E ok \in BOOLEAN :
          solves' = [solves EXCEPT ![p].pc = IF ok THEN "reconcile" ELSE "done",
                                   ![p].waited = 0]
    /\ UNCHANGED <<callvars, environ, pkg>>

\* lines 184-193: _reconstruct_fetch_actions starts `conda info` when the tool
\* is not micromamba and the plan has a LINK-only name
Reconcile(p) ==
    /\ solves[p].pc = "reconcile"
    /\ \E linkOnly \in BOOLEAN :
          solves' = [solves EXCEPT ![p] =
                        IF ~is_micromamba(solves[p].conda) /\ linkOnly
                        THEN [@ EXCEPT !.pc = "done",
                                       !.calls = Append(@, InfoCall(solves[p].conda, p))]
                        ELSE [@ EXCEPT !.pc = "done"]]
    /\ UNCHANGED <<callvars, environ, pkg>>

\* the solve for the platform is over
SolveEnds(p) ==
    /\ solves[p].pc = "done"
    /\ solves' = [solves EXCEPT ![p] = IdleSolve]
    /\ UNCHANGED <<callvars, environ, pkg>>

ConcInit ==
    /\ IdleCall
    /\ environ \in {[CONDA_FLAGS |-> f] : f \in FlagSettings}
    /\ solves = [p \in SolvePlatforms |-> IdleSolve]
    /\ pkg = NoRecord

ConcNext ==
    \/ \E p \in SolvePlatforms : StartSolve(p)
    \/ \E p \in SolvePlatforms : StartUpdate(p)
    \/ \E p \in SolvePlatforms : ListAnswers(p)
    \/ \E p \in SolvePlatforms : Blocked(p)
    \/ \E p \in SolvePlatforms : SolverAnswers(p)
    \/ \E p \in SolvePlatforms : Reconcile(p)
    \/ \E p \in SolvePlatforms : SolveEnds(p)

ConcSpec == ConcInit /\ [][ConcNext]_vars

\* ============================================ one package, lock to lock
\* A locked package is followed through the conversions an update applies to a
\* package it carries forward: fake_conda_environment writes its conda-meta
\* record, `conda list` reports it, update_specs_for_arch synthesizes its FETCH
\* action and solve_conda turns that back into a LockedDependency.

\* build strings an artifact file name may have, each with the build number
\* its trailing "_"-separated component stands for (0: absent or not numeric)
BuildCases ==
    {[build |-> <<"h1", "_", "0">>, number |-> 0],
     [build |-> <<"py39", "_", "1", "2">>, number |-> 12],
     [build |-> <<"3">>, number |-> 3],
     [build |-> <<"py39", "_", "hab">>, number |-> 0],
     [build |-> <<"h1", "_", "1", "a">>, number |-> 0],
     [build |-> <<"py39">>, number |-> 0],
     [build |-> <<"h1", "_">>, number |-> 0]}

\* artifact file names of a locked URL, suffix apart: <name>-<version>-<build>
\* for each build string, and the names of the files the prefix itself uses
FileCases ==
    {[stem |-> <<"a", "-", VersionStr[1], "-">> \o c.build, build |-> c.build,
      number |-> c.number] : c \in BuildCases}
    \cup {[stem |-> <<"pinned">>, build |-> <<"pinned">>, number |-> 0],
          [stem |-> <<"history">>, build |-> <<"history">>, number |-> 0]}

\* artifact suffixes of a locked URL: .tar.bz2 and .conda
ArtifactSuffixes == {<<".tar", ".bz2">>, <<".conda">>}

\* version-range strings of a dependency map: empty, one word, two words, and
\* with a space in front or at the end
Constraints ==
    {<<>>, <<">=1.0">>, <<"1.19.*", " ", "py39_0">>, <<" ", ">=1.0">>, <<">=1.0", " ">>}

\* dependency maps name -> version-range string
DependencyMaps == UNION {[S -> Constraints] : S \in SUBSET {"b", "c"}}

\* a LockedDependency of package "a" whose artifact has the given build string
\* and suffix
LockedInput(c, suffix, deps, p) ==
    [name |-> "a", version |-> VersionStr[1], manager |-> "conda", platform |-> p,
     dependencies |-> deps,
     url |-> <<<<"https://conda.anaconda.org">>, <<"conda-forge">>, <<p>>,
               c.stem \o suffix>>,
     hash |-> <<"md5:">> \o Digest("a", VersionStr[1])]

\* a package of a prior lock is taken up
PickLocked ==
    /\ pkg.stage = "none"
    /\ \E exe \in Tools, c \in FileCases, suffix \in ArtifactSuffixes,
          deps \in DependencyMaps, p \in TargetPlatforms :
          pkg' = [stage |-> "locked", exe |-> exe, case |-> c,
                  dep |-> LockedInput(c, suffix, deps, p)]
    /\ UNCHANGED <<callvars, environ, solves>>

\* lines 475-502: fake_conda_environment writes the package's conda-meta record
WriteRecord ==
    /\ pkg.stage = "locked"
    /\ pkg' = [stage |-> "written", exe |-> pkg.exe, case |-> pkg.case, dep |-> pkg.dep,
               files |-> fake_conda_environment({pkg.dep}, pkg.dep.platform),
               meta |-> MetaEntry(pkg.dep)]
    /\ UNCHANGED <<callvars, environ, solves>>

\* lines 355-363: `conda list` reports the record as a LinkAction; line 384 then
\* looks for a pin file in the prefix
ListRecord ==
    /\ pkg.stage = "written"
    /\ pkg' = [stage |-> "listed", exe |-> pkg.exe, case |-> pkg.case, dep |-> pkg.dep,
               files |-> pkg.files, pin_found |-> PinnedFile \in DOMAIN pkg.files,
               meta |-> pkg.meta, entry |-> CondaListEntry(pkg.exe, pkg.meta)]
    /\ UNCHANGED <<callvars, environ, solves>>

\* lines 428-454: the package is carried forward: its FETCH action is synthesized
CarryRecord ==
    /\ pkg.stage = "listed"
    /\ pkg' = [stage |-> "carried", exe |-> pkg.exe, case |-> pkg.case, dep |-> pkg.dep,
               files |-> pkg.files, pin_found |-> pkg.pin_found,
               meta |-> pkg.meta, entry |-> pkg.entry,
               fetch |-> CarriedFetch(pkg.exe, pkg.entry, pkg.dep)]
    /\ UNCHANGED <<callvars, environ, solves>>

\* lines 143-158: solve_conda builds the LockedDependency of the FETCH action
PlanRecord ==
    /\ pkg.stage = "carried"
    /\ pkg' = [stage |-> "planned", exe |-> pkg.exe, case |-> pkg.case, dep |-> pkg.dep,
               files |-> pkg.files, pin_found |-> pkg.pin_found,
               meta |-> pkg.meta, entry |-> pkg.entry, fetch |-> pkg.fetch,
               planned |-> PlannedDep(pkg.fetch, pkg.dep.platform)]
    /\ UNCHANGED <<callvars, environ, solves>>

\* the next package is taken up
DropRecord ==
    /\ pkg.stage = "planned"
    /\ pkg' = NoRecord
    /\ UNCHANGED <<callvars, environ, solves>>

RecordNext ==
    \/ PickLocked
    \/ WriteRecord
    \/ ListRecord
    \/ CarryRecord
    \/ PlanRecord
    \/ DropRecord

RecordSpec == Init /\ [][RecordNext]_vars

\* ================================================================ claims

\* the call went through update_specs_for_arch (it began with `conda list`)
OnUpdatePath == calls # <<>> /\ calls[1].verb = "list"
OnSolvePath == calls # <<>> /\ calls[1].verb = "create"

\* the call returned a plan
Returned == pc = "done" /\ err = NoValue

\* previously locked native packages for the target platform
LockedNative ==
    {n \in DOMAIN locked : locked[n].manager = "conda" /\ locked[n].platform = platform}

\* names the solver's own plan LINKs (none when the solver was not run)
SolverLinked ==
    IF response = NoValue \/ "actions" \notin response.keys THEN {}
    ELSE NamesOf(response.actions.LINK)

SolverLinkOnly ==
    IF response = NoValue \/ "actions" \notin response.keys THEN {}
    ELSE LinkOnlyNames(response.actions)

Verbs == {calls[i].verb : i \in DOMAIN calls}

\* an update call has ended and `conda list` had answered it
ListAnswered ==
    /\ pc = "done" /\ OnUpdatePath
    /\ ~(err # NoValue /\ err.type = "CalledProcessError")

\* C1: every package name in the LINK list of a returned plan (solve or update,
\* any tool, any solver answer) is also in its FETCH list.
C1_LinkHasFetch ==
    plan # NoValue => NamesOf(plan.LINK) \subseteq NamesOf(plan.FETCH)

C1_Witness ==
    /\ Returned /\ plan # NoValue
    /\ SolverLinkOnly # {}
    /\ ~is_micromamba(conda)

\* C2 as stated: after a successful update every previously locked native package
\* whose name is not in the update set has exactly its prior version in the result.
C2_OnlyUpdatedMove ==
    (Returned /\ OnUpdatePath) =>
        \A n \in LockedNative \ update :
            n \in DOMAIN result /\ result[n].version = locked[n].version

\* C2 amended: a previously locked native package not in the update set keeps its
\* prior version in the result when the solver's plan does not LINK it, and has
\* the version of the solver's LINK action when the plan does LINK it.
C2_UnlinkedKeepVersion ==
    (Returned /\ OnUpdatePath) =>
        \A n \in LockedNative \ update :
            /\ n \in DOMAIN result
            /\ result[n].version =
                 IF n \in SolverLinked
                 THEN LastNamed(response.actions.LINK, n).version
                 ELSE locked[n].version
            /\ NameStartsWithMamba(conda) => result[n].version = locked[n].version

C2_Witness ==
    /\ Returned /\ OnUpdatePath
    /\ \E n \in LockedNative \ update : n \notin SolverLinked
    /\ \E n \in LockedNative \cap update :
          n \in SolverLinked /\ result[n].version # locked[n].version

\* C3: in update, every package installed in the synthetic prior environment and
\* absent from the LINK list of the solver's plan is in both the LINK and the FETCH
\* list of the returned plan, with the version it had in the prior environment.
C3_CarriedForward ==
    (Returned /\ OnUpdatePath) =>
        \A n \in DOMAIN installed \ SolverLinked :
            /\ \E i \in DOMAIN plan.LINK :
                  plan.LINK[i].name = n /\ plan.LINK[i].version = installed[n].version
            /\ \E i \in DOMAIN plan.FETCH :
                  plan.FETCH[i].name = n /\ plan.FETCH[i].version = installed[n].version
            /\ \A i \in DOMAIN plan.FETCH :
                  plan.FETCH[i].name = n => plan.FETCH[i].version = installed[n].version

C3_Witness ==
    /\ Returned /\ OnUpdatePath
    /\ SolverLinked # {}
    /\ DOMAIN installed \ SolverLinked # {}

\* C4: for every package carried forward by update, the LockedDependency that
\* solve_conda returns has the hash string of the prior LockedDependency.
C4_HashSurvives ==
    (Returned /\ OnUpdatePath) =>
        \A n \in DOMAIN installed \ SolverLinked :
            n \in DOMAIN result /\ result[n].hash = locked[n].hash

\* C5 as stated: when no requested update name is installed in the synthetic
\* environment, update returns an empty plan without a dry run and without error.
C5_EmptyPlan ==
    (ListAnswered /\ DOMAIN installed \cap update = {}) =>
        /\ err = NoValue
        /\ Verbs \cap {"install", "update", "create"} = {}
        /\ plan # NoValue /\ plan.LINK = <<>> /\ plan.FETCH = <<>>

\* C5 amended: when no requested update name is installed in the synthetic
\* environment, update runs no dry run and raises nothing; the plan it took for the
\* solver's is empty, and the plan it returns holds exactly one LINK and one FETCH
\* action per installed package (all carried forward), so it is empty only when
\* the environment is.
C5_NoDryRunAllCarried ==
    (ListAnswered /\ DOMAIN installed \cap update = {}) =>
        /\ err = NoValue
        /\ Verbs \cap {"install", "update", "create"} = {}
        /\ response = NoValue
        /\ plan # NoValue
        /\ NamesOf(plan.LINK) = DOMAIN installed
        /\ NamesOf(plan.FETCH) = DOMAIN installed
        /\ Len(plan.LINK) = Cardinality(DOMAIN installed)
        /\ Len(plan.FETCH) = Cardinality(DOMAIN installed)

C5_Witness ==
    /\ ListAnswered
    /\ DOMAIN installed \cap update = {}
    /\ DOMAIN installed # {}

\* C6: with mamba, when the bulk update dry run is invoked the pin file exists and
\* holds exactly one line `name ==version` per installed package not in the update
\* list, at its locked version, and no line for a package in the update list.
C6_PinFileBeforeUpdate ==
    (pc = "dryrun" /\ conda = <<"mamba">>) =>
        /\ calls[Len(calls)].verb = "update"
        /\ PinnedFile \in DOMAIN fs.files
        /\ LET lines == fs.files[PinnedFile].data
           IN  /\ Len(lines) = Cardinality(DOMAIN installed \ update)
               /\ \A n \in DOMAIN installed \ update :
                     /\ Cardinality({i \in DOMAIN lines : lines[i][1] = n}) = 1
                     /\ <<n, " ==", locked[n].version, "\n">> \in Range(lines)
               /\ \A i \in DOMAIN lines : lines[i][1] \notin update

C6_Witness ==
    /\ pc = "dryrun" /\ conda = <<"mamba">>
    /\ DOMAIN installed \ update # {}
    /\ DOMAIN installed \cap update # {}

\* the per-package records a conda-meta directory holds
MetaRecords(files) ==
    {files[f].data : f \in {g \in DOMAIN files : files[g].kind = "json"}}

\* exactly one record per locked conda dependency of the platform, none besides
RecordsMatchLock(files) ==
    /\ Cardinality({f \in DOMAIN files : files[f].kind = "json"})
          = Cardinality(LockedNative)
    /\ \A n \in LockedNative :
          /\ Cardinality({r \in MetaRecords(files) : r.name = n}) = 1
          /\ \A r \in MetaRecords(files) : r.name = n => r.version = locked[n].version
    /\ \A r \in MetaRecords(files) : r.name \in LockedNative

\* C8: the synthetic prior environment for platform P holds exactly one metadata
\* record per previously locked dependency whose manager is conda and whose platform
\* is P, with its name and version, and no record for any other dependency: both
\* the environment an update call builds and the one fake_conda_environment
\* builds from the whole prior lock (pip packages included).
C8_OneRecordPerLockedNative ==
    /\ fs.exists => RecordsMatchLock(fs.files)
    /\ pc # "idle" => RecordsMatchLock(fake_conda_environment(Range(locked), platform))

C8_Witness ==
    /\ pc = "list"
    /\ LockedNative # {}
    /\ \E n \in DOMAIN locked : locked[n].manager # "conda" \/ locked[n].platform # platform

StructuredFailure ==
    /\ pc = "done" /\ response # NoValue
    /\ response.returncode # 0 /\ response.json /\ "message" \in response.keys

\* C10 as stated: on a non-zero exit both solve and update fail with an error that
\* carries the platform and the message of the structured response; no plan is
\* returned and no reconciliation runs.
C10_ErrorCarriesPlatform ==
    StructuredFailure =>
        /\ err # NoValue /\ plan = NoValue /\ result = NoValue /\ "info" \notin Verbs
        /\ platform \in Range(err.text)
        /\ Range(response.message) \subseteq Range(err.text)

\* C10 amended: on a non-zero exit both solve and update fail, return no plan
\* and run no reconciliation. For a structured response with a message, update
\* raises a RuntimeError whose text carries the platform and the message; solve
\* prints the platform and the message to stderr and re-raises the subprocess's
\* CalledProcessError, which carries the raw output and not the platform.
C10_FailureSurfaced ==
    (pc = "done" /\ response # NoValue /\ response.returncode # 0) =>
        /\ err # NoValue /\ plan = NoValue /\ result = NoValue /\ "info" \notin Verbs
        /\ (StructuredFailure /\ OnUpdatePath) =>
              /\ err.type = "RuntimeError"
              /\ platform \in Range(err.text)
              /\ Range(response.message) \subseteq Range(err.text)
        /\ (StructuredFailure /\ OnSolvePath) =>
              /\ err.type = "CalledProcessError"
              /\ platform \notin Range(err.text)
              /\ err.output = StdoutText(response)
              /\ \E i \in DOMAIN stderr : platform \in Range(stderr[i])
              /\ response.message \in Range(stderr)

C10_Witness ==
    /\ StructuredFailure /\ OnSolvePath
    /\ err # NoValue

\* the solver failed and its output has no message, or is not structured at all
UnstructuredFailure ==
    /\ pc = "done" /\ response # NoValue
    /\ response.returncode # 0
    /\ (~response.json \/ "message" \notin response.keys)

\* the raw solver output reaches the caller: in the exception or on stderr
RawOutputSurfaced ==
    \/ err.output = StdoutText(response)
    \/ Range(StdoutText(response)) \subseteq Range(err.text)
    \/ StdoutText(response) \in Range(stderr)

\* C11: when the solver exits non-zero and its output has no `message` field or
\* cannot be parsed, both solve and update fail with the solver failure (not a
\* parsing error) and surface the raw solver output as the failure's message.
C11_RawOutputSurfaced ==
    UnstructuredFailure =>
        /\ err # NoValue
        /\ err.type \in {"CalledProcessError", "RuntimeError"}
        /\ RawOutputSurfaced

\* the reconciliation looked a LINK-only distribution up in the package cache
\* and no pkgs_dir held a record for it
CacheRecordMissing ==
    /\ pc = "done" /\ ~is_micromamba(conda)
    /\ "info" \in Verbs
    /\ \E n \in SolverLinkOnly :
          LastNamed(response.actions.LINK, n).dist_name \notin pkgs_dirs

\* C12: with conda or mamba, when the reconciliation meets a LINK-only entry whose
\* distribution has a metadata record in no package-cache directory, the call fails
\* with the missing-record error (FileExistsError) and returns no plan; no returned
\* plan leaves a LINK-only entry of the solver without a FETCH entry.
C12_MissingCacheRecordFails ==
    /\ CacheRecordMissing =>
          /\ err # NoValue /\ err.type = "FileExistsError"
          /\ plan = NoValue /\ result = NoValue
    /\ (plan # NoValue /\ ~is_micromamba(conda)) =>
          /\ SolverLinkOnly \subseteq NamesOf(plan.FETCH)
          /\ \A n \in SolverLinkOnly :
                LastNamed(response.actions.LINK, n).dist_name \in pkgs_dirs

C12_Witness ==
    /\ CacheRecordMissing
    /\ OnUpdatePath
    /\ Cardinality(SolverLinkOnly) = 2
    /\ pkgs_dirs # {}

\* deadlines a caller may set for a solver subprocess, in time units
Deadlines == 1..(MaxWait - 1)

\* C13: a solver subprocess that runs longer than the caller's timeout is
\* terminated: whatever deadline the caller sets, no solve or update call is
\* still blocked on its dry-run subprocess after the deadline has passed.
C13_TimeoutEnforced ==
    \A t \in Deadlines : \A p \in SolvePlatforms :
        solves[p].pc \in {"dryrun", "create"} => solves[p].waited <= t

DryRunVerbs == {"create", "install", "update"}

\* the argument lists the solve for p may start a subprocess with, given its own
\* parameters and a process environment
ArgsOfSolve(s, p, env) ==
    {CreateCall(s.conda, env, s.channels, s.specs, p).args,
     ListCall(s.conda, p).args,
     InfoCall(s.conda, p).args}
    \cup {UpdateCall(s.conda, env, s.channels, tu, p).args :
            tu \in ToUpdateLists(s.specs) \ {<<>>}}

\* C14 as stated: every subprocess invocation of a solve receives the channel and
\* platform overrides of its own platform as an explicit per-call map, and no
\* parameter of it comes from ambient process state.
C14_NothingAmbient ==
    \A p \in SolvePlatforms : \A i \in DOMAIN solves[p].calls :
        LET call == solves[p].calls[i]
        IN  /\ call.env = conda_env_override(p)
            /\ Range(solves[p].channels) \subseteq Range(call.args)
            /\ call.args \in ArgsOfSolve(solves[p], p, [CONDA_FLAGS |-> <<>>])

\* C14 amended: every subprocess invocation of a solve gets the platform override
\* of its own platform in its env= map; the channels are arguments of the dry-run
\* invocations only (list and info get neither channels nor flags); a dry run's
\* extra flags are read from CONDA_FLAGS in the process environment, which no
\* step writes. So with solves for two platforms interleaved in any order, each
\* invocation is determined by its own solve's parameters and that variable.
C14_OwnOverridesPerCall ==
    /\ [](\A p \in SolvePlatforms : \A i \in DOMAIN solves[p].calls :
            LET call == solves[p].calls[i]
            IN  /\ call.env = conda_env_override(p)
                /\ call.args \in ArgsOfSolve(solves[p], p, environ)
                /\ call.args[2] \in DryRunVerbs =>
                      /\ Range(solves[p].channels) \subseteq Range(call.args)
                      /\ Range(environ.CONDA_FLAGS) \subseteq Range(call.args)
                /\ call.args[2] \in {"list", "info"} =>
                      /\ "--channel" \notin Range(call.args)
                      /\ Range(environ.CONDA_FLAGS) \cap Range(call.args) = {})
    /\ [][environ' = environ]_vars

C14_Witness ==
    /\ solves["linux-64"].pc = "dryrun"
    /\ solves["win-64"].pc = "create"
    /\ environ.CONDA_FLAGS # <<>>
    /\ solves["linux-64"].channels # <<>>
    /\ solves["win-64"].channels # <<>>
    /\ "msys2" \in Range(solves["win-64"].calls[1].args)

\* C15: solve_conda returns exactly one LockedDependency per distinct package name
\* of the plan's FETCH list, stored under that name, with manager "conda" and the
\* requested platform; no two returned records share (name, manager, platform).
C15_OneRecordPerFetchedName ==
    Returned =>
        /\ DOMAIN result = NamesOf(plan.FETCH)
        /\ \A n \in DOMAIN result :
              /\ result[n].name = n
              /\ result[n].manager = "conda"
              /\ result[n].platform = platform
              /\ \E i \in DOMAIN plan.FETCH :
                    /\ plan.FETCH[i].name = n
                    /\ plan.FETCH[i].version = result[n].version
                    /\ plan.FETCH[i].url = result[n].url
        /\ \A n, m \in DOMAIN result :
              <<result[n].name, result[n].manager, result[n].platform>>
                = <<result[m].name, result[m].manager, result[m].platform>> => n = m

C15_Witness ==
    /\ Returned /\ OnSolvePath
    /\ Cardinality(DOMAIN result) = 2
    /\ Len(plan.FETCH) = 2

\* the package's conda-meta record has been written
RecordWritten == pkg.stage \in {"written", "listed", "carried", "planned"}

\* C16: in the synthetic metadata record the build string is the last
\* "-"-separated segment of the artifact file name with its compression suffix
\* layers removed, and the build number is the integer value of the build string's
\* trailing "_"-separated component, 0 when that component is empty or not
\* numeric; a record is written for every build string.
C16_BuildNumber ==
    /\ RecordWritten =>
          /\ pkg.meta.build = pkg.case.build
          /\ pkg.meta.build_number = pkg.case.number
    /\ pkg.stage = "locked" => MetaEntry(pkg.dep).build_number \in Nat

C16_Witness ==
    /\ RecordWritten
    /\ pkg.meta.build_number = 12
    /\ pkg.dep.url[4][Len(pkg.dep.url[4])] = ".conda"

\* no version-range string of the map ends in whitespace
NoTrailingSpace(deps) ==
    \A k \in DOMAIN deps : deps[k] = <<>> \/ deps[k][Len(deps[k])] # " "

\* C17 as stated: writing a dependency map as "name constraint" tokens (in the
\* conda-meta record and in the carried FETCH action) and parsing the tokens back
\* gives the same name-to-constraint map, for every map.
C17_DependsRoundTrip ==
    pkg.stage = "planned" =>
        /\ ParseDepends(pkg.meta.depends) = pkg.dep.dependencies
        /\ pkg.planned.dependencies = pkg.dep.dependencies

\* C17 amended: writing a dependency map as "name constraint" tokens and parsing
\* them back gives the map with the whitespace at the end of each constraint
\* removed: the same map when no constraint ends in whitespace (an empty
\* constraint, several words, whitespace in front are all kept).
C17_RoundTripUpToTrailingSpace ==
    pkg.stage = "planned" =>
        LET stripped == [k \in DOMAIN pkg.dep.dependencies |->
                            RStrip(pkg.dep.dependencies[k])]
        IN  /\ ParseDepends(pkg.meta.depends) = stripped
            /\ pkg.planned.dependencies = stripped
            /\ NoTrailingSpace(pkg.dep.dependencies) =>
                  pkg.planned.dependencies = pkg.dep.dependencies

C17_Witness ==
    /\ pkg.stage = "planned"
    /\ DOMAIN pkg.dep.dependencies = {"b", "c"}
    /\ pkg.dep.dependencies["b"] = <<>>
    /\ pkg.dep.dependencies["c"] = <<" ", ">=1.0">>
    /\ pkg.planned.dependencies = pkg.dep.dependencies

\* the dry run of an update call has been started
UpdateDryRunStarted == OnUpdatePath /\ Verbs \cap {"install", "update"} # {}

\* the invocation of the update dry run
UpdateDryRun == calls[CHOOSE i \in DOMAIN calls : calls[i].verb \in {"install", "update"}]

\* C18: in update the pin file is written if and only if the executable is mamba,
\* which is driven with `update`; micromamba is driven with `update` and conda with
\* `install`, and for those two the prefix never holds a pin file. Every tool is
\* passed exactly the specs of the names both requested and installed.
C18_ToolVariantPolicy ==
    /\ (fs.exists /\ conda # <<"mamba">>) => PinnedFile \notin DOMAIN fs.files
    /\ pc = "dryrun" => (PinnedFile \in DOMAIN fs.files <=> conda = <<"mamba">>)
    /\ UpdateDryRunStarted =>
          /\ Cardinality({i \in DOMAIN calls : calls[i].verb \in DryRunVerbs}) = 1
          /\ UpdateDryRun.verb =
                (IF conda = <<"conda">> THEN "install" ELSE "update")
          /\ Range(UpdateDryRun.specs) =
                {to_match_spec(n, specs[n].version) : n \in DOMAIN installed \cap update}
          /\ Len(UpdateDryRun.specs) = Cardinality(DOMAIN installed \cap update)
          /\ DOMAIN installed \cap update # {}

C18_Witness ==
    /\ pc = "dryrun"
    /\ conda = <<"micro", "mamba">>
    /\ update \ DOMAIN installed # {}
    /\ Len(UpdateDryRun.specs) = 1

\* match specs of the version-constrained requirements managed by conda
VersionedCondaSpecs ==
    {to_match_spec(n, specs[n].version) :
        n \in {k \in DOMAIN specs :
                  specs[k].kind = "versioned" /\ specs[k].manager = "conda"}}

\* C19: solve_conda takes the partial-update path exactly when a requested update
\* name is the name of a previously locked conda package; otherwise it runs a
\* fresh `create` dry run of all conda specs, without the synthetic environment
\* of the prior lock. On both paths only the match specs of version-constrained
\* requirements managed by conda are passed to the solver.
C19_PathChoice ==
    pc # "idle" =>
        /\ OnUpdatePath <=>
              update \cap {n \in DOMAIN locked : locked[n].manager = "conda"} # {}
        /\ OnSolvePath <=> ~OnUpdatePath
        /\ OnSolvePath =>
              /\ Range(calls[1].specs) = VersionedCondaSpecs
              /\ Len(calls[1].specs) = Cardinality(VersionedCondaSpecs)
              /\ ~fs.exists /\ installed = <<>> /\ "list" \notin Verbs
        /\ \A i \in DOMAIN calls : Range(calls[i].specs) \subseteq VersionedCondaSpecs

C19_Witness ==
    /\ pc = "create"
    /\ update # {}
    /\ update \subseteq DOMAIN locked
    /\ \E n \in DOMAIN specs : specs[n].kind = "url"
    /\ \E n \in DOMAIN specs : specs[n].manager = "pip"
    /\ calls[1].specs = <<>>

\* C20: for a package carried forward by update, the url of the synthesized FETCH
\* action (and of the LockedDependency built from it) equals the url of the prior
\* LockedDependency, for micromamba and for the other tools, and for a .tar.bz2
\* as well as a .conda artifact.
C20_CarriedUrl ==
    pkg.stage \in {"carried", "planned"} =>
        /\ pkg.fetch.url = pkg.dep.url
        /\ pkg.stage = "planned" => pkg.planned.url = pkg.dep.url

\* C21: update_specs_for_arch ends without an internal error for every requested
\* update name that is installed in the synthetic prior environment, also when the
\* name has no entry among the explicit specs (it was locked as a transitive
\* dependency): a request for each such name is passed to the solver.
C21_TransitiveUpdatable ==
    (ListAnswered /\ DOMAIN installed \cap update # {}) =>
        /\ ~(err # NoValue /\ err.type = "KeyError" /\ err.text = <<"spec_for_name">>)
        /\ UpdateDryRunStarted
        /\ \A n \in DOMAIN installed \cap update :
              \E i \in DOMAIN UpdateDryRun.specs : Head(UpdateDryRun.specs[i]) = n

\* C22: when update_specs_for_arch looks for a pin file (line 384) there is none:
\* the prefix was made within the call and holds only the history file and the
\* ".json" record of each locked package, whatever the package's file name is, so
\* the assertion never fails.
C22_NoPinFileAtAssert ==
    /\ pkg.stage \in {"written", "listed", "carried", "planned"} =>
          /\ DOMAIN pkg.files = {HistoryFile, pkg.case.stem \o <<".json">>}
          /\ PinnedFile \notin DOMAIN pkg.files
    /\ pkg.stage \in {"listed", "carried", "planned"} => ~pkg.pin_found

C22_Witness ==
    /\ pkg.stage = "listed"
    /\ pkg.exe = <<"mamba">>
    /\ pkg.case.stem = <<"pinned">>
    /\ <<"pinned", ".json">> \in DOMAIN pkg.files

\* the plan _reconstruct_fetch_actions was applied to in the call that returned:
\* the solver's own plan (line 323), or the update plan after the carry-forward
\* (line 455)
ReconstructInput ==
    IF OnSolvePath THEN response.actions
    ELSE carry_forward(conda, installed, conda_locked(locked),
                       IF response = NoValue \/ "actions" \notin response.keys
                       THEN EmptyActions ELSE response.actions)

\* the FETCH actions _reconstruct_fetch_actions added to its input
ReconstructAppended ==
    SubSeq(plan.FETCH, Len(ReconstructInput.FETCH) + 1, Len(plan.FETCH))

\* C23: the plan _reconstruct_fetch_actions returns has the LINK list of its input,
\* begins with the input's FETCH actions unchanged, and ends with exactly one FETCH
\* action for each name that had a LINK but no FETCH action and none for any other
\* name; applied to its own result it runs no command and returns the same plan.
C23_ReconstructFrame ==
    Returned =>
        /\ plan.LINK = ReconstructInput.LINK
        /\ Len(plan.FETCH) >= Len(ReconstructInput.FETCH)
        /\ SubSeq(plan.FETCH, 1, Len(ReconstructInput.FETCH)) = ReconstructInput.FETCH
        /\ NamesOf(ReconstructAppended)
              = NamesOf(ReconstructInput.LINK) \ NamesOf(ReconstructInput.FETCH)
        /\ Len(ReconstructAppended) = Cardinality(NamesOf(ReconstructAppended))
        /\ reconstruct_fetch_actions(conda, platform, plan, pkgs_dirs)
              = [err |-> NoValue, calls |-> <<>>, actions |-> plan]

C23_Witness ==
    /\ Returned
    /\ ReconstructInput.FETCH # <<>>
    /\ ReconstructAppended # <<>>
    /\ NamesOf(ReconstructInput.LINK) = Names

====
